---- MODULE Spec2Model ----
(***************************************************************************)
(* KathaChitra video composition engine.                                   *)
(*                                                                         *)
(*   backend/services/video_service.py   VideoService                      *)
(*   backend/utils/file_handler.py       TempFileHandler                   *)
(*   backend/main.py                     generate_video, lifespan          *)
(*   backend/services/audio_service.py   generate_full_narration           *)
(*                                                                         *)
(*   Spec         one request, from generate_video to cleanup_session      *)
(*   FairSpec     the same with the scheduling of its steps                *)
(*   SpecTimed    the same with a clock and the 300 s limits               *)
(*   SpecCompose  create_story_video alone                                 *)
(*   SpecCaption  _create_subtitle_file alone                              *)
(*   SpecDestroy  concurrent calls of cleanup_session                      *)
(*   SpecSweep    lifespan and cleanup_old_files over base_dir             *)
(*   SpecPair     two concurrent requests                                  *)
(*                                                                         *)
(* Texts are sequences of one-character strings.  Times are exact          *)
(* rationals [n, d] counted in tenths of a second (0.5 s = 5/1), so the    *)
(* Python floats are modelled without their rounding error.                *)
(***************************************************************************)
EXTENDS Integers, Sequences, FiniteSets, TLC

(***************************************************************************)
(* Bounds of the model.                                                    *)
(***************************************************************************)
\* longest story text enumerated character by character
MaxLen == 4
\* most sentences in a rendered story text
MaxSentences == 2
\* most calls of cleanup_session on one workspace
MaxCalls == 3

(***************************************************************************)
(* Program constants, times in tenths of a second.                         *)
(***************************************************************************)
\* range(0, len(words), 8)
ChunkWords == 8
\* current_time = 0.5
LeadIn == 5
\* max(word_count / words_per_second, 1.5)
MinSegment == 15
\* words_per_second = 2.5, i.e. 4 tenths of a second per word
TenthsPerWord == 4
\* current_time += segment_duration + 0.2
Gap == 2
\* duration - 1
TailMargin == 10
\* duration = 30
DefaultDuration == 300
\* duration < 5
SanityFloor == 50
\* duration += 2
Padding == 20
\* size / 16000: the bytes of one second of audio
BytesPerSecond == 16000
\* MAX_TEMP_FILE_AGE = 300, in units of 100 s
MaxTempFileAge == 3
\* asyncio.sleep(300), in units of 100 s
SweepInterval == 3
\* subprocess.run(..., timeout=300), in units of 100 s
EncoderTimeout == 3

None == "None"

\* Optional[float]: None, or a number of tenths of a second
NoDuration == [some |-> FALSE, v |-> 0]

Some(x) == [some |-> TRUE, v |-> x]

(***************************************************************************)
(* Characters.                                                             *)
(***************************************************************************)
IsSpace(c) == c \in {" ", "\t", "\n"}

IsTerminal(c) == c \in {".", "!", "?"}

Alphabet == {"a", ".", " "}

(***************************************************************************)
(* Exact rational arithmetic on [n, d] with d > 0.                         *)
(***************************************************************************)
Rat(n, d) == [n |-> n, d |-> d]

RLt(a, b) == a.n * b.d < b.n * a.d

RLe(a, b) == a.n * b.d <= b.n * a.d

REq(a, b) == a.n * b.d = b.n * a.d

RMul(a, b) == Rat(a.n * b.n, a.d * b.d)

RDiv(a, b) == Rat(a.n * b.d, a.d * b.n)

Max(a, b) == IF a >= b THEN a ELSE b

(***************************************************************************)
(* Positions of a text, in order.                                          *)
(***************************************************************************)
Positions(t) == [i \in 1..Len(t) |-> i]

\* the last position of the whitespace run that starts at position i
RunEnd(t, i) ==
    CHOOSE j \in i..Len(t) :
        /\ \A k \in i..j : IsSpace(t[k])
        /\ j = Len(t) \/ ~IsSpace(t[j + 1])

(***************************************************************************)
(* re.split(r'(?<=[.!?])\s+', story_text): the text is cut at every run of *)
(* whitespace that directly follows '.', '!' or '?'; the run is dropped.   *)
(***************************************************************************)
IsCut(t, i) == i > 1 /\ IsSpace(t[i]) /\ IsTerminal(t[i - 1])

SplitSentences(t) ==
    LET cuts == SelectSeq(Positions(t), LAMBDA i : IsCut(t, i))
        m == Len(cuts)
    IN  [k \in 1..(m + 1) |->
            SubSeq(t,
                   IF k = 1 THEN 1 ELSE RunEnd(t, cuts[k - 1]) + 1,
                   IF k = m + 1 THEN Len(t) ELSE cuts[k] - 1)]

(***************************************************************************)
(* str.split(): the maximal runs of non-whitespace characters.             *)
(***************************************************************************)
IsWordStart(t, i) == ~IsSpace(t[i]) /\ (i = 1 \/ IsSpace(t[i - 1]))

IsWordEnd(t, i) == ~IsSpace(t[i]) /\ (i = Len(t) \/ IsSpace(t[i + 1]))

Words(t) ==
    LET starts == SelectSeq(Positions(t), LAMBDA i : IsWordStart(t, i))
        ends == SelectSeq(Positions(t), LAMBDA i : IsWordEnd(t, i))
    IN  [k \in 1..Len(starts) |-> SubSeq(t, starts[k], ends[k])]

(***************************************************************************)
(* " ".join(chunk_words)                                                   *)
(***************************************************************************)
\* the words are joined by two spaces
RECURSIVE JoinTwoSpaces(_)
JoinTwoSpaces(ws) ==
    IF ws = << >> THEN << >>
    ELSE IF Len(ws) = 1 THEN ws[1]
    ELSE ws[1] \o << " ", " " >> \o JoinTwoSpaces(Tail(ws))

RECURSIVE Join(_)
Join(ws) ==
    IF ws = << >> THEN << >>
    ELSE IF Len(ws) = 1 THEN ws[1]
    ELSE ws[1] \o << " " >> \o Join(Tail(ws))

Min(a, b) == IF a <= b THEN a ELSE b

(***************************************************************************)
(* for i in range(0, len(words), 8): chunk_words = words[i:i + 8];         *)
(* an empty chunk is not appended.                                         *)
(***************************************************************************)
\* chunks of ten words
RECURSIVE ChunksOfTen(_, _)
ChunksOfTen(ws, i) ==
    IF i > Len(ws) THEN << >>
    ELSE << Join(SubSeq(ws, i, Min(i + 9, Len(ws)))) >> \o ChunksOfTen(ws, i + 10)

RECURSIVE ChunksFrom(_, _)
ChunksFrom(ws, i) ==
    IF i > Len(ws) THEN << >>
    ELSE LET chunk_words == SubSeq(ws, i, Min(i + ChunkWords - 1, Len(ws)))
         IN  (IF chunk_words # << >> THEN << Join(chunk_words) >> ELSE << >>)
             \o ChunksFrom(ws, i + ChunkWords)

\* the chunks start at the second word: range(1, len(words), 8)
SentenceSegmentsFromSecond(sentence) == ChunksFrom(Words(sentence), 2)

SentenceSegments(sentence) == ChunksFrom(Words(sentence), 1)

RECURSIVE SegmentsOf(_)
SegmentsOf(sentences) ==
    IF sentences = << >> THEN << >>
    ELSE SentenceSegments(Head(sentences)) \o SegmentsOf(Tail(sentences))

\* lines 117-129: the caption segments of a story text
MakeSegments(t) == SegmentsOf(SplitSentences(t))

\* the caption file is written whatever the segments are
NoSegmentsIgnored(segs) == FALSE

\* line 131: if len(segments) == 0: return None
NoSegments(segs) == Len(segs) = 0

(***************************************************************************)
(* lines 140-148: provisional timings, left to right.                      *)
(***************************************************************************)
\* the duration has no minimum
SegmentDurationNoFloor(word_count) == word_count * TenthsPerWord

SegmentDuration(word_count) == Max(word_count * TenthsPerWord, MinSegment)

RECURSIVE TimesFrom(_, _, _)
TimesFrom(segs, i, current_time) ==
    IF i > Len(segs) THEN << >>
    ELSE LET segment_duration == SegmentDuration(Len(Words(segs[i])))
         IN  << [s |-> Rat(current_time, 1),
                 e |-> Rat(current_time + segment_duration, 1)] >>
             \o TimesFrom(segs, i + 1, current_time + segment_duration + Gap)

ProvisionalTimes(segs) == TimesFrom(segs, 1, LeadIn)

(***************************************************************************)
(* lines 150-153: scale the timings when the last end exceeds duration - 1.*)
(***************************************************************************)
\* the timings are scaled whatever the last end is
NeedsRescaleAlways(times, dur) == times # << >>

NeedsRescale(times, dur) ==
    /\ times # << >>
    /\ RLt(Rat(dur - TailMargin, 1), times[Len(times)].e)

\* the factor fits the timings to the whole duration
ScaleFactorNoMargin(times, dur) == RDiv(Rat(dur, 1), times[Len(times)].e)

ScaleFactor(times, dur) == RDiv(Rat(dur - TailMargin, 1), times[Len(times)].e)

\* only the end times are scaled
RescaleEndsOnly(times, dur) ==
    IF NeedsRescale(times, dur)
    THEN LET scale == ScaleFactor(times, dur)
         IN  [i \in DOMAIN times |->
                 [s |-> times[i].s, e |-> RMul(times[i].e, scale)]]
    ELSE times

Rescale(times, dur) ==
    IF NeedsRescale(times, dur)
    THEN LET scale == ScaleFactor(times, dur)
         IN  [i \in DOMAIN times |->
                 [s |-> RMul(times[i].s, scale), e |-> RMul(times[i].e, scale)]]
    ELSE times

(***************************************************************************)
(* create_story_video lines 66-73: the duration of the video.              *)
(***************************************************************************)
\* the padding is added to a usable probe only
TimelinePadsProbeOnly(audio_exists, probed) ==
    IF audio_exists /\ probed.some /\ probed.v >= SanityFloor
    THEN probed.v + Padding
    ELSE DefaultDuration

Timeline(audio_exists, probed) ==
    IF audio_exists
    THEN (IF probed = NoDuration \/ probed.v < SanityFloor
          THEN DefaultDuration
          ELSE probed.v) + Padding
    ELSE DefaultDuration

(***************************************************************************)
(* Inputs of the model.                                                    *)
(***************************************************************************)
ShortTexts == UNION {[1..n -> Alphabet] : n \in 0..MaxLen}

\* k one-letter words separated by single spaces
Paragraph(k) == [i \in 1..(2 * k - 1) |-> IF i % 2 = 1 THEN "a" ELSE " "]

RECURSIVE Render(_)
Render(counts) ==
    IF Len(counts) = 1 THEN Paragraph(counts[1]) \o << "." >>
    ELSE Paragraph(counts[1]) \o << ".", " " >> \o Render(Tail(counts))

SentenceWords == {1, 9, 17}

RenderedTexts ==
    {Render(cs) : cs \in UNION {[1..n -> SentenceWords] : n \in 1..MaxSentences}}

ParagraphWords == {25, 72, 120}

Paragraphs == {Paragraph(k) : k \in ParagraphWords}

StoryTexts == ShortTexts \cup RenderedTexts \cup Paragraphs

\* what ffprobe prints or the size estimate gives, in tenths of a second
ProbeValues == {0, 30, 50, 100, 280}

ProbeResults == {NoDuration} \cup {Some(x) : x \in ProbeValues}

ComposeDurations == {Timeline(a, p) : a \in BOOLEAN, p \in ProbeResults}

(***************************************************************************)
(* The workspace of the request: session_dir and the files in it.          *)
(***************************************************************************)
\* story_narration.mp3, story_image.png, captions.srt, story_video.mp4
Roles == {"audio", "image", "captions", "output"}

\* the order in which os.scandir lists the entries of the directory
RoleOrder == << "audio", "captions", "image", "output" >>

Entries(fs) == SelectSeq(RoleOrder, LAMBDA f : f \in fs)

\* who removes a directory tree: the request, the periodic sweep, and a
\* second caller of cleanup_session
Callers == {"req", "sweep", "other"}

IdleRm == [pc |-> "idle", todo |-> << >>, caught |-> FALSE]

VARIABLES
    story_text,       \* the story text of the request
    duration,         \* the duration of the video, 0 before it is computed
    segments,         \* _create_subtitle_file: the caption texts
    provisional,      \* segment_times before the scaling of lines 150-153
    segment_times,    \* segment_times as written to the caption file
    cap_pc,           \* position in _create_subtitle_file
    ws,               \* session_dir: "none" (never created), "exists", "removed"
    files,            \* the files in session_dir
    ws_old,           \* session_dir's mtime is more than MAX_TEMP_FILE_AGE ago
    rm,               \* per caller: position in cleanup_session / shutil.rmtree
    pc,               \* position of generate_video
    enable_captions,  \* request.enable_captions
    image_ok,         \* request.video_image decodes to an image
    audio_path,       \* what generate_full_narration returned
    audio,            \* the narration: its length and its size estimate
    probed,           \* what _get_audio_duration returned
    subtitle_path,    \* what _create_subtitle_file returned
    sub_arg,          \* subtitle_path argument of the running _create_video_ffmpeg
    attempts,         \* the encoder subprocesses started, in order
    proc,             \* the subprocess the request waits for
    success,          \* what _create_video_ffmpeg returned
    video_path,       \* what create_story_video returned
    response,         \* how the request ended
    streamed,         \* what iterfile delivered
    cleanups,         \* calls of cleanup_session
    dirs,             \* base_dir: per session directory, whether it is there,
                      \* whether its mtime is more than MAX_TEMP_FILE_AGE ago,
                      \* and whether it can be removed
    sweep,            \* position of cleanup_old_files
    server,           \* lifespan: "startup", "serving", "shutdown", "stopped"
    task,             \* periodic_cleanup: "none", "sleeping", "cancelled", "dead"
    age,              \* whole units of 100 s that session_dir's mtime is old at least
    timer,            \* units of 100 s that asyncio.sleep(300) has been waiting
    ran,              \* units of 100 s the running ffmpeg has been seen running
    stamp,            \* session_dir and the subprocess as they were one unit ago
    sessions,         \* per concurrent request: its position, directory and result
    tree              \* per path under base_dir: the file there, or None

capVars == << story_text, duration, segments, provisional, segment_times, cap_pc >>

fsVars == << ws, files, ws_old, rm >>

reqVars ==
    << pc, enable_captions, image_ok, audio_path, audio, probed, subtitle_path, sub_arg,
       attempts, proc, success, video_path, response, streamed >>

sweepVars == << dirs, sweep, server, task >>

timeVars == << age, timer, ran, stamp >>

pairVars == << sessions, tree >>

extVars == << sweepVars, timeVars, pairVars >>

coreVars == << capVars, fsVars, reqVars, cleanups >>

vars == << coreVars, extVars >>

NoAudio == [len |-> 0, size |-> 0]

NoProc == [kind |-> "none", state |-> "none", outcome |-> "none", inputs_ok |-> FALSE]

\* the request is not running
ReqIdle ==
    /\ pc = "idle"
    /\ enable_captions = FALSE
    /\ image_ok = FALSE
    /\ audio_path = None
    /\ audio = NoAudio
    /\ probed = NoDuration
    /\ subtitle_path = None
    /\ sub_arg = None
    /\ attempts = << >>
    /\ proc = NoProc
    /\ success = FALSE
    /\ video_path = None
    /\ response = "none"
    /\ streamed = "none"

CapIdle ==
    /\ segments = << >>
    /\ provisional = << >>
    /\ segment_times = << >>

\* the session directories under base_dir
Dirs == {"d1", "d2", "d3"}

NoDir == [there |-> FALSE, old |-> FALSE, locked |-> FALSE]

\* cleanup_old_files is not running; ran: the callers it has run for
IdleSweep ==
    [pc |-> "idle", by |-> "none", todo |-> << >>, item |-> "none", expired |-> {},
     fresh |-> {}, removed |-> {}, caught |-> FALSE, ran |-> {}]

\* the process-wide sweep is not modelled
SweepIdle ==
    /\ dirs = [d \in Dirs |-> NoDir]
    /\ sweep = IdleSweep
    /\ server = "serving"
    /\ task = "sleeping"

NoStamp == [ws |-> "none", files |-> {}, procs |-> 0]

\* time is not modelled
TimeIdle ==
    /\ age = 0
    /\ timer = 0
    /\ ran = 0
    /\ stamp = NoStamp

\* no concurrent requests are modelled
PairIdle ==
    /\ sessions = << >>
    /\ tree = << >>

ExtIdle == SweepIdle /\ TimeIdle /\ PairIdle

(***************************************************************************)
(* _create_subtitle_file, step by step, on every text and every duration   *)
(* create_story_video can pass.                                            *)
(***************************************************************************)
CapInit ==
    /\ story_text \in StoryTexts
    /\ duration \in ComposeDurations
    /\ CapIdle
    /\ cap_pc = "call"
    /\ ws = "exists" /\ files = {"image"} /\ ws_old = FALSE
    /\ rm = [c \in Callers |-> IdleRm]
    /\ ReqIdle
    /\ cleanups = 0
    /\ ExtIdle

\* lines 117-132
CapSegment ==
    /\ cap_pc = "call"
    /\ segments' = MakeSegments(story_text)
    /\ cap_pc' = IF NoSegments(segments') THEN "return_none" ELSE "timing"
    /\ UNCHANGED << story_text, duration, provisional, segment_times >>
    /\ UNCHANGED << fsVars, reqVars, cleanups >>
    /\ UNCHANGED extVars

\* lines 134-148
CapTiming ==
    /\ cap_pc = "timing"
    /\ provisional' = ProvisionalTimes(segments)
    /\ cap_pc' = "rescale"
    /\ UNCHANGED << story_text, duration, segments, segment_times >>
    /\ UNCHANGED << fsVars, reqVars, cleanups >>
    /\ UNCHANGED extVars

\* lines 150-153
CapRescale ==
    /\ cap_pc = "rescale"
    /\ segment_times' = Rescale(provisional, duration)
    /\ cap_pc' = "write"
    /\ UNCHANGED << story_text, duration, segments, provisional >>
    /\ UNCHANGED << fsVars, reqVars, cleanups >>
    /\ UNCHANGED extVars

\* lines 155-169
CapWrite ==
    /\ cap_pc = "write"
    /\ cap_pc' = "return_path"
    /\ files' = files \cup {"captions"}
    /\ UNCHANGED << story_text, duration, segments, provisional, segment_times >>
    /\ UNCHANGED << ws, ws_old, rm, reqVars, cleanups >>
    /\ UNCHANGED extVars

CapNext == CapSegment \/ CapTiming \/ CapRescale \/ CapWrite

SpecCaption == CapInit /\ [][CapNext]_vars

(***************************************************************************)
(* cleanup_session and shutil.rmtree, step by step for caller c.           *)
(***************************************************************************)
\* no except clause: the exception of rmtree leaves cleanup_session
CleanupSessionRaises(r) == [pc |-> "raised", todo |-> << >>, caught |-> FALSE]

\* cleanup_session lines 67-68: except Exception: print a warning
CleanupSessionExcept(r) == [pc |-> "returned", todo |-> << >>, caught |-> TRUE]

\* cleanup_old_files lines 87-88: except Exception: print a warning, the
\* scan ends
CleanupOldFilesExcept(r) == [pc |-> "idle", todo |-> << >>, caught |-> TRUE]

Except(c, r) ==
    IF c = "sweep" THEN CleanupOldFilesExcept(r) ELSE CleanupSessionExcept(r)

\* what a finished rmtree returns to
Finished(c, r) ==
    IF c = "sweep" THEN IdleRm ELSE [r EXCEPT !.pc = "returned", !.todo = << >>]

\* cleanup_session line 65: if session_dir.exists()
CleanupExists(c) ==
    /\ rm[c].pc = "enter"
    /\ rm' = [rm EXCEPT ![c] = IF ws = "exists"
                               THEN [@ EXCEPT !.pc = "scan"]
                               ELSE [@ EXCEPT !.pc = "returned"]]
    /\ UNCHANGED << ws, files, ws_old >>

\* shutil.rmtree: list the directory
RmtreeScan(c) ==
    /\ rm[c].pc = "scan"
    /\ rm' = [rm EXCEPT ![c] = IF ws = "exists"
                               THEN [@ EXCEPT !.pc = IF files = {} THEN "rmdir" ELSE "unlink",
                                              !.todo = Entries(files)]
                               ELSE Except(c, @)]
    /\ UNCHANGED << ws, files, ws_old >>

\* shutil.rmtree: unlink the next listed entry
RmtreeUnlink(c) ==
    /\ rm[c].pc = "unlink"
    /\ LET f == Head(rm[c].todo)
       IN  IF ws = "exists" /\ f \in files
           THEN /\ files' = files \ {f}
                /\ ws_old' = FALSE
                /\ rm' = [rm EXCEPT ![c] =
                              [@ EXCEPT !.todo = Tail(rm[c].todo),
                                        !.pc = IF Len(rm[c].todo) = 1
                                               THEN "rmdir" ELSE "unlink"]]
           ELSE /\ rm' = [rm EXCEPT ![c] = Except(c, @)]
                /\ UNCHANGED << files, ws_old >>
    /\ UNCHANGED ws

\* shutil.rmtree: remove the directory itself
RmtreeRmdir(c) ==
    /\ rm[c].pc = "rmdir"
    /\ IF ws = "exists" /\ files = {}
       THEN /\ ws' = "removed"
            /\ ws_old' = FALSE
            /\ rm' = [rm EXCEPT ![c] = Finished(c, @)]
       ELSE /\ rm' = [rm EXCEPT ![c] = Except(c, @)]
            /\ UNCHANGED << ws, ws_old >>
    /\ UNCHANGED files

Remove(c) == CleanupExists(c) \/ RmtreeScan(c) \/ RmtreeUnlink(c) \/ RmtreeRmdir(c)

(***************************************************************************)
(* generate_video and create_story_video for one request.  The coroutine   *)
(* runs on the event loop and is suspended at "narration", "probe",        *)
(* "encode" and "streaming"; the periodic sweep runs on the same loop, so  *)
(* it runs only while the coroutine is suspended, and the coroutine does   *)
(* not resume while a sweep is under way.                                  *)
(***************************************************************************)
RequestTexts == {<< >>, << " " >>, << "a" >>, Paragraph(25)}

AudioLens == {30, 50}

\* st_size of the narration in bytes
AudioSizes == {48000, 160000, 480000}

Audios == {[len |-> l, size |-> n] : l \in AudioLens, n \in AudioSizes}

LoopFree == rm["sweep"].pc = "idle"

Suspended == pc \in {"narration", "probe", "encode", "streaming"}

Last(seq) == seq[Len(seq)]

AddFile(f) ==
    /\ files' = files \cup {f}
    /\ ws_old' = IF f \in files THEN ws_old ELSE FALSE

Init ==
    /\ story_text \in RequestTexts
    /\ enable_captions \in BOOLEAN
    /\ image_ok \in BOOLEAN
    /\ pc = "start"
    /\ duration = 0
    /\ CapIdle
    /\ cap_pc = "idle"
    /\ ws = "none" /\ files = {} /\ ws_old = FALSE
    /\ rm = [c \in Callers |-> IdleRm]
    /\ audio_path = None
    /\ audio = NoAudio
    /\ probed = NoDuration
    /\ subtitle_path = None
    /\ sub_arg = None
    /\ attempts = << >>
    /\ proc = NoProc
    /\ success = FALSE
    /\ video_path = None
    /\ response = "none"
    /\ streamed = "none"
    /\ cleanups = 0
    /\ ExtIdle

\* main.py lines 178-191: reject an empty text, else create the session
\* directory and await the narration
GenerateVideo ==
    /\ pc = "start"
    /\ IF story_text = << >>
       THEN /\ response' = "400"
            /\ pc' = "done"
            /\ UNCHANGED << ws, files, ws_old >>
       ELSE /\ ws' = "exists"
            /\ files' = {}
            /\ ws_old' = FALSE
            /\ pc' = "narration"
            /\ UNCHANGED response
    /\ UNCHANGED << capVars, rm, enable_captions, image_ok, audio_path, audio, probed,
                    subtitle_path, sub_arg, attempts, proc, success, video_path,
                    streamed, cleanups >>
    /\ UNCHANGED extVars

\* generate_full_narration returns the path of the audio it wrote
NarrationPath ==
    /\ pc = "narration" /\ LoopFree
    /\ ws = "exists"
    /\ \E a \in Audios : audio' = a
    /\ audio_path' = "audio"
    /\ AddFile("audio")
    /\ pc' = "save_image"
    /\ UNCHANGED << capVars, ws, rm, enable_captions, image_ok, probed, subtitle_path,
                    sub_arg, attempts, proc, success, video_path, response, streamed,
                    cleanups >>
    /\ UNCHANGED extVars

\* generate_full_narration returns None: no engine produced audio
NarrationNone ==
    /\ pc = "narration" /\ LoopFree
    /\ audio_path' = None
    /\ pc' = "save_image"
    /\ UNCHANGED << capVars, fsVars, enable_captions, image_ok, audio, probed,
                    subtitle_path, sub_arg, attempts, proc, success, video_path,
                    response, streamed, cleanups >>
    /\ UNCHANGED extVars

\* the await raises an Exception: main.py lines 227-228
NarrationRaises ==
    /\ pc = "narration" /\ LoopFree
    /\ pc' = "except_exception"
    /\ rm' = [rm EXCEPT !["req"] = [@ EXCEPT !.pc = "enter"]]
    /\ cleanups' = cleanups + 1
    /\ UNCHANGED << capVars, ws, files, ws_old, enable_captions, image_ok, audio_path,
                    audio, probed, subtitle_path, sub_arg, attempts, proc, success,
                    video_path, response, streamed >>
    /\ UNCHANGED extVars

\* the image file exists whatever the payload is
ImageSavedAnyPayload(decodes, dir_exists) == dir_exists

\* video_service.py lines 60-62 and 183-199: story_image.png exists after
\* _save_base64_image only if the payload decodes and the file can be written
ImageSaved(decodes, dir_exists) == decodes /\ dir_exists

\* video_service.py lines 57-64
SaveImage ==
    /\ pc = "save_image"
    /\ IF ImageSaved(image_ok, ws = "exists")
       THEN /\ AddFile("image")
            /\ pc' = "check_audio"
       ELSE /\ pc' = "respond"
            /\ UNCHANGED << files, ws_old >>
    /\ video_path' = None
    /\ UNCHANGED << capVars, ws, rm, enable_captions, image_ok, audio_path, audio, probed,
                    subtitle_path, sub_arg, attempts, proc, success, response, streamed,
                    cleanups >>
    /\ UNCHANGED extVars

\* video_service.py lines 66-73 and 201-220: start ffprobe, or take the default
CheckAudio ==
    /\ pc = "check_audio"
    /\ IF audio_path # None /\ "audio" \in files
       THEN /\ proc' = [kind |-> "ffprobe", state |-> "running", outcome |-> "none",
                        inputs_ok |-> TRUE]
            /\ pc' = "probe"
            /\ UNCHANGED duration
       ELSE /\ duration' = Timeline(FALSE, NoDuration)
            /\ pc' = "captions"
            /\ UNCHANGED proc
    /\ UNCHANGED << story_text, segments, provisional, segment_times, cap_pc, fsVars,
                    enable_captions, image_ok, audio_path, audio, probed, subtitle_path,
                    sub_arg, attempts, success, video_path, response, streamed, cleanups >>
    /\ UNCHANGED extVars

\* video_service.py line 231: size / 16000, in tenths of a second
SizeEstimate(size) == (size * 10) \div BytesPerSecond

\* what ffprobe can end with: the duration printed, the binary missing, a
\* non-zero exit, nothing printed, or something printed that float() rejects
ProbeOutcomes == {"ok", "missing", "nonzero", "empty", "garbage"}

\* output that float() rejects leaves the probe without a result
ProbeResultGarbageIsNone(outcome) ==
    IF outcome = "ok" THEN Some(audio.len)
    ELSE IF outcome = "garbage" THEN NoDuration
    ELSE IF ws = "exists" /\ "audio" \in files THEN Some(SizeEstimate(audio.size))
    ELSE NoDuration

\* video_service.py lines 222-235: the printed duration; on an exception
\* (lines 225-226) or an unusable result the size estimate; None when
\* stat() fails as well
ProbeResult(outcome) ==
    IF outcome = "ok" THEN Some(audio.len)
    ELSE IF ws = "exists" /\ "audio" \in files THEN Some(SizeEstimate(audio.size))
    ELSE NoDuration

\* video_service.py lines 68-71
ProbeResume ==
    /\ pc = "probe" /\ LoopFree
    /\ proc.state = "exited"
    /\ probed' = ProbeResult(proc.outcome)
    /\ duration' = Timeline(TRUE, probed')
    /\ proc' = [proc EXCEPT !.state = "returned"]
    /\ pc' = "captions"
    /\ UNCHANGED << story_text, segments, provisional, segment_times, cap_pc, fsVars,
                    enable_captions, image_ok, audio_path, audio, subtitle_path, sub_arg,
                    attempts, success, video_path, response, streamed, cleanups >>
    /\ UNCHANGED extVars

\* the caption path is returned even when nothing was written
SubtitleReturnAlwaysPath(outcome) == "captions"

\* what _create_subtitle_file returns: None at line 132 (no segments) and at
\* line 173 (an exception), the path at line 169
SubtitleReturn(outcome) == IF outcome = "return_path" THEN "captions" ELSE None

\* video_service.py lines 77-82 and 107-173: the caption file, written when
\* captions are enabled and the story text is not empty; open() or write()
\* at lines 156-166 may raise (workspace gone, disk full, no descriptor left)
CreateSubtitle ==
    /\ pc = "captions"
    /\ \E write_ok \in BOOLEAN :
          IF enable_captions /\ story_text # << >>
          THEN /\ segments' = MakeSegments(story_text)
               /\ IF NoSegments(segments')
                  THEN /\ cap_pc' = "return_none"
                       /\ UNCHANGED << provisional, segment_times, files, ws_old >>
                  ELSE /\ provisional' = ProvisionalTimes(segments')
                       /\ segment_times' = Rescale(provisional', duration)
                       /\ IF ws = "exists" /\ write_ok
                          THEN /\ AddFile("captions")
                               /\ cap_pc' = "return_path"
                          ELSE /\ cap_pc' = "except_none"
                               /\ UNCHANGED << files, ws_old >>
               /\ subtitle_path' = SubtitleReturn(cap_pc')
          ELSE /\ cap_pc' = "skipped"
               /\ subtitle_path' = None
               /\ UNCHANGED << segments, provisional, segment_times, files, ws_old >>
    /\ sub_arg' = subtitle_path'
    /\ pc' = "ffmpeg"
    /\ UNCHANGED << story_text, duration, ws, rm, enable_captions, image_ok, audio_path,
                    audio, probed, attempts, proc, success, video_path, response,
                    streamed, cleanups >>
    /\ UNCHANGED extVars

\* the audio options of a command with an audio input: '-c:a', 'aac' in
\* every tier, '-b:a', '192k' in _create_video_ffmpeg only (line 280; lines
\* 350-351 have no '-b:a', which leaves the bitrate to the encoder)
AudioOptions(tier, has_audio) ==
    IF has_audio
    THEN [acodec |-> "aac", abitrate |-> IF tier # "C" THEN "192k" ELSE "default"]
    ELSE [acodec |-> None, abitrate |-> None]

\* the pan/zoom filter is left out of a chain that burns captions
FilterChainCaptionsNoZoom(tier, with_captions) ==
    IF tier = "C" THEN << >>
    ELSE IF with_captions THEN << "scale", "pad", "subtitles" >>
    ELSE << "scale", "pad", "zoompan" >>

\* the filters of '-vf': scale, pad and zoompan (lines 252-259), then
\* subtitles (lines 262-265); _create_simple_video passes no '-vf'
FilterChain(tier, with_captions) ==
    IF tier = "C" THEN << >>
    ELSE << "scale", "pad", "zoompan" >>
         \o (IF with_captions THEN << "subtitles" >> ELSE << >>)

\* the plan of one encoder subprocess: lines 262-300 and 341-368
Plan(tier) ==
    LET has_audio == audio_path # None /\ ws = "exists" /\ "audio" \in files
        with_captions == tier # "C" /\ sub_arg # None /\ ws = "exists"
                         /\ "captions" \in files
    IN  [tier |-> tier,
         captions |-> with_captions,
         filters |-> FilterChain(tier, with_captions),
         audio |-> has_audio,
         container |-> "mp4",
         vcodec |-> "libx264",
         pix_fmt |-> "yuv420p",
         acodec |-> AudioOptions(tier, has_audio).acodec,
         abitrate |-> AudioOptions(tier, has_audio).abitrate,
         outcome |-> "running",
         out_exists |-> FALSE]

StartProc(tier) ==
    /\ proc' = [kind |-> "ffmpeg", state |-> "running", outcome |-> "none",
                inputs_ok |-> ws = "exists" /\ "image" \in files]
    /\ attempts' = Append(attempts, Plan(tier))
    /\ pc' = "encode"
    /\ UNCHANGED << capVars, fsVars, enable_captions, image_ok, audio_path, audio, probed,
                    subtitle_path, sub_arg, success, video_path, response, streamed,
                    cleanups >>
    /\ UNCHANGED extVars

\* _create_video_ffmpeg lines 246-308: with a subtitle_path (tier A) or
\* without one (tier B)
StartFfmpeg ==
    /\ pc = "ffmpeg"
    /\ StartProc(IF sub_arg # None THEN "A" ELSE "B")

\* _create_simple_video lines 336-374 (tier C)
StartSimple ==
    /\ pc = "simple"
    /\ StartProc("C")

\* ffprobe ends: it prints the duration, or fails (missing binary, non-zero
\* exit, empty or non-numeric output); it has no timeout
ProbeExit ==
    /\ proc.kind = "ffprobe" /\ proc.state = "running"
    /\ \E o \in ProbeOutcomes :
          /\ o = "ok" => (ws = "exists" /\ "audio" \in files)
          /\ proc' = [proc EXCEPT !.state = "exited", !.outcome = o]
    /\ UNCHANGED << capVars, fsVars, pc, enable_captions, image_ok, audio_path, audio,
                    probed, subtitle_path, sub_arg, attempts, success, video_path,
                    response, streamed, cleanups >>
    /\ UNCHANGED extVars

\* ffmpeg ends: exit status 0 with the output written, a non-zero exit, or
\* killed after timeout=300; a failed run may leave an output file behind
EncoderExit ==
    /\ proc.kind = "ffmpeg" /\ proc.state = "running"
    /\ \E o \in {"ok", "nonzero", "timeout"}, wrote \in BOOLEAN :
          /\ o = "ok" => (proc.inputs_ok /\ wrote)
          /\ wrote => proc.inputs_ok
          /\ proc' = [proc EXCEPT !.state = "exited", !.outcome = o]
          /\ IF wrote /\ ws = "exists"
             THEN AddFile("output")
             ELSE UNCHANGED << files, ws_old >>
    /\ UNCHANGED << capVars, ws, rm, pc, enable_captions, image_ok, audio_path, audio,
                    probed, subtitle_path, sub_arg, attempts, success, video_path,
                    response, streamed, cleanups >>
    /\ UNCHANGED extVars

\* tier A's failure goes straight to the minimal plan
AfterAttemptSkipsB(tier, outcome, out_exists) ==
    IF outcome = "timeout" THEN "false"
    ELSE IF outcome = "ok" /\ out_exists THEN "true"
    ELSE IF tier = "C" THEN "false"
    ELSE "simple_C"

\* what follows the subprocess of a tier.
\* _create_video_ffmpeg lines 310-326, _create_simple_video lines 376-380
AfterAttempt(tier, outcome, out_exists) ==
    IF outcome = "timeout" THEN "false"
    ELSE IF tier = "C" THEN (IF outcome = "ok" /\ out_exists THEN "true" ELSE "false")
    ELSE IF outcome = "ok" /\ out_exists THEN "true"
    ELSE IF tier = "A" THEN "retry_B"
    ELSE "simple_C"

\* the retry is called with the same subtitle_path
RetryArgKeepsSubtitle(step, sub) == sub

\* the subtitle_path of the next call: None in the retry of lines 317-319
RetryArg(step, sub) == IF step = "retry_B" THEN None ELSE sub

EncodeResume ==
    /\ pc = "encode" /\ LoopFree
    /\ proc.kind = "ffmpeg" /\ proc.state = "exited"
    /\ LET out_exists == ws = "exists" /\ "output" \in files
           step == AfterAttempt(Last(attempts).tier, proc.outcome, out_exists)
       IN  /\ attempts' = [attempts EXCEPT ![Len(attempts)] =
                              [@ EXCEPT !.outcome = proc.outcome,
                                        !.out_exists = out_exists]]
           /\ success' = (step = "true")
           /\ sub_arg' = RetryArg(step, sub_arg)
           /\ pc' = CASE step = "retry_B" -> "ffmpeg"
                      [] step = "simple_C" -> "simple"
                      [] OTHER -> "compose_return"
    /\ proc' = NoProc
    /\ UNCHANGED << capVars, fsVars, enable_captions, image_ok, audio_path, audio, probed,
                    subtitle_path, video_path, response, streamed, cleanups >>
    /\ UNCHANGED extVars

\* the output path is returned whenever the file exists
ComposeResultIgnoresSuccess(ok, out_exists) == IF out_exists THEN "output" ELSE None

\* create_story_video lines 95-99
ComposeResult(ok, out_exists) == IF ok /\ out_exists THEN "output" ELSE None

ComposeReturn ==
    /\ pc = "compose_return"
    /\ video_path' = ComposeResult(success, ws = "exists" /\ "output" \in files)
    /\ pc' = "respond"
    /\ UNCHANGED << capVars, fsVars, enable_captions, image_ok, audio_path, audio, probed,
                    subtitle_path, sub_arg, attempts, proc, success, response, streamed,
                    cleanups >>
    /\ UNCHANGED extVars

\* main.py lines 203-222: HTTPException, or the streaming response with the
\* cleanup as its background task
Respond ==
    /\ pc = "respond"
    /\ IF video_path = None \/ ~(ws = "exists" /\ "output" \in files)
       THEN /\ pc' = "except_http"
            /\ rm' = [rm EXCEPT !["req"] = [@ EXCEPT !.pc = "enter"]]
            /\ cleanups' = cleanups + 1
            /\ UNCHANGED response
       ELSE /\ pc' = "streaming"
            /\ response' = "200"
            /\ UNCHANGED << rm, cleanups >>
    /\ UNCHANGED << capVars, ws, files, ws_old, enable_captions, image_ok, audio_path,
                    audio, probed, subtitle_path, sub_arg, attempts, proc, success,
                    video_path, streamed >>
    /\ UNCHANGED extVars

\* main.py lines 224-230: cleanup_session inside the except clause, on the
\* event loop
ExceptCleanup ==
    /\ pc \in {"except_http", "except_exception"} /\ LoopFree
    /\ Remove("req")
    /\ UNCHANGED << capVars, reqVars, cleanups >>
    /\ UNCHANGED extVars

\* main.py lines 226 and 230: the HTTPException leaves generate_video
RaiseHttp ==
    /\ pc \in {"except_http", "except_exception"}
    /\ rm["req"].pc = "returned"
    /\ response' = "500"
    /\ pc' = "done"
    /\ rm' = [rm EXCEPT !["req"] = [@ EXCEPT !.pc = "idle"]]
    /\ UNCHANGED << capVars, ws, files, ws_old, enable_captions, image_ok, audio_path,
                    audio, probed, subtitle_path, sub_arg, attempts, proc, success,
                    video_path, streamed, cleanups >>
    /\ UNCHANGED extVars

\* the cleanup starts when it is added at line 210, before iterfile is read
CleanupNotAfterStream ==
    /\ pc = "streaming" /\ LoopFree
    /\ pc' = "background"
    /\ rm' = [rm EXCEPT !["req"] = [@ EXCEPT !.pc = "enter"]]
    /\ cleanups' = cleanups + 1
    /\ UNCHANGED << capVars, ws, files, ws_old, enable_captions, image_ok, audio_path,
                    audio, probed, subtitle_path, sub_arg, attempts, proc, success,
                    video_path, response, streamed >>
    /\ UNCHANGED extVars

\* iterfile has been read to its end; the background task starts
StreamDone ==
    /\ pc = "streaming" /\ LoopFree
    /\ streamed' = IF ws = "exists" /\ "output" \in files THEN "ok" ELSE "failed"
    /\ pc' = "background"
    /\ rm' = [rm EXCEPT !["req"] = [@ EXCEPT !.pc = "enter"]]
    /\ cleanups' = cleanups + 1
    /\ UNCHANGED << capVars, ws, files, ws_old, enable_captions, image_ok, audio_path,
                    audio, probed, subtitle_path, sub_arg, attempts, proc, success,
                    video_path, response >>
    /\ UNCHANGED extVars

\* main.py line 210: cleanup_session as a background task, in a worker thread
BackgroundCleanup ==
    /\ pc = "background"
    /\ Remove("req")
    /\ UNCHANGED << capVars, reqVars, cleanups >>
    /\ UNCHANGED extVars

BackgroundDone ==
    /\ pc = "background"
    /\ rm["req"].pc = "returned"
    /\ pc' = "done"
    /\ rm' = [rm EXCEPT !["req"] = [@ EXCEPT !.pc = "idle"]]
    /\ UNCHANGED << capVars, ws, files, ws_old, enable_captions, image_ok, audio_path,
                    audio, probed, subtitle_path, sub_arg, attempts, proc, success,
                    video_path, response, streamed, cleanups >>
    /\ UNCHANGED extVars

\* the request's task is cancelled while it awaits the narration or a
\* subprocess: CancelledError is no Exception, so no except clause of
\* video_service.py or main.py catches it
Cancel ==
    /\ pc \in {"narration", "probe", "encode"} /\ LoopFree
    /\ response' = "cancelled"
    /\ pc' = "done"
    /\ UNCHANGED << capVars, fsVars, enable_captions, image_ok, audio_path, audio, probed,
                    subtitle_path, sub_arg, attempts, proc, success, video_path,
                    streamed, cleanups >>
    /\ UNCHANGED extVars

\* time passes: the directory was last modified more than MAX_TEMP_FILE_AGE ago
Age ==
    /\ Suspended \/ pc = "done"
    /\ ws = "exists" /\ ~ws_old
    /\ ws_old' = TRUE
    /\ UNCHANGED << capVars, ws, files, rm, reqVars, cleanups >>
    /\ UNCHANGED extVars

\* cleanup_old_files lines 81-86: the periodic sweep finds the directory old
SweepStart ==
    /\ Suspended \/ pc \in {"background", "done"}
    /\ rm["sweep"].pc = "idle"
    /\ ws = "exists" /\ ws_old
    /\ rm' = [rm EXCEPT !["sweep"] = [@ EXCEPT !.pc = "scan"]]
    /\ UNCHANGED << capVars, ws, files, ws_old, reqVars, cleanups >>
    /\ UNCHANGED extVars

\* cleanup_old_files line 86: shutil.rmtree(item)
SweepRemove ==
    /\ RmtreeScan("sweep") \/ RmtreeUnlink("sweep") \/ RmtreeRmdir("sweep")
    /\ UNCHANGED << capVars, reqVars, cleanups >>
    /\ UNCHANGED extVars

Next ==
    \/ GenerateVideo
    \/ NarrationPath
    \/ NarrationNone
    \/ NarrationRaises
    \/ SaveImage
    \/ CheckAudio
    \/ ProbeExit
    \/ ProbeResume
    \/ CreateSubtitle
    \/ StartFfmpeg
    \/ StartSimple
    \/ EncoderExit
    \/ EncodeResume
    \/ ComposeReturn
    \/ Respond
    \/ ExceptCleanup
    \/ RaiseHttp
    \/ StreamDone
    \/ BackgroundCleanup
    \/ BackgroundDone
    \/ Cancel
    \/ Age
    \/ SweepStart
    \/ SweepRemove

Spec == Init /\ [][Next]_vars

\* the steps generate_video and create_story_video take without waiting for
\* anything outside the process
HandlerStep ==
    \/ GenerateVideo
    \/ SaveImage
    \/ CheckAudio
    \/ CreateSubtitle
    \/ StartFfmpeg
    \/ StartSimple
    \/ ComposeReturn
    \/ Respond
    \/ ExceptCleanup
    \/ RaiseHttp

(***************************************************************************)
(* The same program with its scheduling: the handler takes its steps, the  *)
(* event loop resumes a coroutine whose subprocess has ended, a scan runs  *)
(* to its end, and subprocess.run(..., timeout=300) ends ffmpeg by itself   *)
(* or by the timeout.  Nothing ends ffprobe: line 219 passes no timeout.    *)
(***************************************************************************)
FairSpec ==
    /\ Init
    /\ [][Next]_vars
    /\ WF_vars(HandlerStep)
    /\ SF_vars(ProbeResume)
    /\ SF_vars(EncodeResume)
    /\ WF_vars(EncoderExit)
    /\ WF_vars(SweepRemove)

(***************************************************************************)
(* create_story_video on its own: the workspace exists, the narration is   *)
(* there or not, and the story text is any text, the empty one included.   *)
(***************************************************************************)
ComposeTexts == ShortTexts \cup {Paragraph(25)}

ComposeAudio == [len |-> 50, size |-> 160000]

ComposeInit ==
    /\ story_text \in ComposeTexts
    /\ enable_captions \in BOOLEAN
    /\ image_ok \in BOOLEAN
    /\ pc = "save_image"
    /\ duration = 0
    /\ CapIdle
    /\ cap_pc = "idle"
    /\ ws = "exists" /\ ws_old = FALSE
    /\ rm = [c \in Callers |-> IdleRm]
    /\ \/ audio_path = None /\ audio = NoAudio /\ files = {}
       \/ audio_path = "audio" /\ audio = ComposeAudio /\ files = {"audio"}
    /\ probed = NoDuration
    /\ subtitle_path = None
    /\ sub_arg = None
    /\ attempts = << >>
    /\ proc = NoProc
    /\ success = FALSE
    /\ video_path = None
    /\ response = "none"
    /\ streamed = "none"
    /\ cleanups = 0
    /\ ExtIdle

ComposeNext ==
    \/ SaveImage
    \/ CheckAudio
    \/ ProbeExit
    \/ ProbeResume
    \/ CreateSubtitle
    \/ StartFfmpeg
    \/ StartSimple
    \/ EncoderExit
    \/ EncodeResume
    \/ ComposeReturn

SpecCompose == ComposeInit /\ [][ComposeNext]_vars

(***************************************************************************)
(* cleanup_session called by two callers on one workspace, which exists or *)
(* was never created; the calls interleave step by step.                   *)
(***************************************************************************)
DestroyCallers == {"req", "other"}

DestroyInit ==
    /\ ws \in {"none", "exists"}
    /\ files \in (IF ws = "exists" THEN SUBSET Roles ELSE {{}})
    /\ ws_old = FALSE
    /\ rm = [c \in Callers |-> IdleRm]
    /\ story_text = << >>
    /\ duration = 0
    /\ CapIdle
    /\ cap_pc = "idle"
    /\ ReqIdle
    /\ cleanups = 0
    /\ ExtIdle

\* a caller calls cleanup_session(session_dir)
DestroyCall(c) ==
    /\ rm[c].pc \in {"idle", "returned"}
    /\ cleanups < MaxCalls
    /\ rm' = [rm EXCEPT ![c] = [pc |-> "enter", todo |-> << >>, caught |-> FALSE]]
    /\ cleanups' = cleanups + 1
    /\ UNCHANGED << capVars, ws, files, ws_old, reqVars >>
    /\ UNCHANGED extVars

DestroyStep(c) ==
    /\ Remove(c)
    /\ UNCHANGED << capVars, reqVars, cleanups >>
    /\ UNCHANGED extVars

DestroyNext == \E c \in DestroyCallers : DestroyCall(c) \/ DestroyStep(c)

SpecDestroy == DestroyInit /\ [][DestroyNext]_vars

(***************************************************************************)
(* One request with time, in units of 100 s.  A clock ticks once per unit; *)
(* everything else takes place between two ticks.  Time passes only while  *)
(* generate_video waits for the narration, for ffmpeg or for the client;    *)
(* ffprobe is taken to end within the unit it started in.  At a tick, age   *)
(* is the number of whole units since the first tick after session_dir was *)
(* last modified, so the mtime is at least age units old; ran is the       *)
(* number of ticks the running ffmpeg has seen, so it has run for more      *)
(* than ran - 1 and less than ran units.                                    *)
(***************************************************************************)
TimedInit ==
    /\ story_text = << "a" >>
    /\ enable_captions \in BOOLEAN
    /\ image_ok = TRUE
    /\ pc = "start"
    /\ duration = 0
    /\ CapIdle
    /\ cap_pc = "idle"
    /\ ws = "none" /\ files = {} /\ ws_old = FALSE
    /\ rm = [c \in Callers |-> IdleRm]
    /\ audio_path = None
    /\ audio = NoAudio
    /\ probed = NoDuration
    /\ subtitle_path = None
    /\ sub_arg = None
    /\ attempts = << >>
    /\ proc = NoProc
    /\ success = FALSE
    /\ video_path = None
    /\ response = "none"
    /\ streamed = "none"
    /\ cleanups = 0
    /\ SweepIdle
    /\ PairIdle
    /\ age = 0
    /\ timer \in 0..(SweepInterval - 1)
    /\ ran = 0
    /\ stamp = NoStamp

\* the running ffmpeg was already running at the last tick
SameProc ==
    /\ proc.kind = "ffmpeg" /\ proc.state = "running"
    /\ stamp.procs = Len(attempts)

\* 100 s have passed.  No tick while the sleep of periodic_cleanup is over
\* (main.py line 91), and none that would let ffmpeg run for more than
\* timeout=300 (video_service.py lines 307 and 373).
Tick ==
    /\ pc \in {"narration", "encode", "streaming", "done"}
    /\ pc = "encode" => proc.state = "running"
    /\ LoopFree
    /\ timer < SweepInterval
    /\ ~(SameProc /\ ran = EncoderTimeout)
    /\ age' = IF stamp.ws = ws /\ stamp.files = files
              THEN Min(age + 1, MaxTempFileAge + 1)
              ELSE 0
    /\ ws_old' = (ws = "exists" /\ age' > MaxTempFileAge)
    /\ timer' = timer + 1
    /\ ran' = IF proc.kind = "ffmpeg" /\ proc.state = "running"
              THEN (IF stamp.procs = Len(attempts) THEN ran + 1 ELSE 1)
              ELSE 0
    /\ stamp' = [ws |-> ws, files |-> files, procs |-> Len(attempts)]
    /\ UNCHANGED << capVars, ws, files, rm, reqVars, cleanups, sweepVars, pairVars >>

\* main.py lines 90-92 and cleanup_old_files lines 81-86: the sleep is over,
\* the sweep removes session_dir if its mtime is more than MAX_TEMP_FILE_AGE
\* ago, and periodic_cleanup sleeps again
TimedSweep ==
    /\ timer = SweepInterval
    /\ Suspended \/ pc \in {"background", "done"}
    /\ rm["sweep"].pc = "idle"
    /\ timer' = 0
    /\ rm' = IF ws = "exists" /\ ws_old
             THEN [rm EXCEPT !["sweep"] = [@ EXCEPT !.pc = "scan"]]
             ELSE rm
    /\ UNCHANGED << capVars, ws, files, ws_old, reqVars, cleanups, sweepVars, age, ran,
                    stamp, pairVars >>

\* ffmpeg ends; the timeout ends it only after 300 s
TimedEncoderExit ==
    /\ EncoderExit
    /\ proc'.outcome = "timeout" => (SameProc /\ ran = EncoderTimeout)

TimedNext ==
    \/ GenerateVideo
    \/ NarrationPath
    \/ NarrationNone
    \/ NarrationRaises
    \/ SaveImage
    \/ CheckAudio
    \/ ProbeExit
    \/ ProbeResume
    \/ CreateSubtitle
    \/ StartFfmpeg
    \/ StartSimple
    \/ TimedEncoderExit
    \/ EncodeResume
    \/ ComposeReturn
    \/ Respond
    \/ ExceptCleanup
    \/ RaiseHttp
    \/ StreamDone
    \/ BackgroundCleanup
    \/ BackgroundDone
    \/ Cancel
    \/ SweepRemove
    \/ Tick
    \/ TimedSweep

SpecTimed == TimedInit /\ [][TimedNext]_vars

(***************************************************************************)
(* Two requests served concurrently.  Each one is generate_video from      *)
(* create_session_dir to cleanup_session, a step per file it writes; what   *)
(* its engines do (narration produced, image decodable, captions written,  *)
(* some encoder tier successful) is fixed per request, so that its result   *)
(* can be compared with the result it has when it runs alone.  A file       *)
(* records who wrote it and whose files it was made from.                   *)
(***************************************************************************)
Requests == {"r1", "r2"}

\* base_dir itself and the session directories under it
Places == {"base"} \cup Dirs

Paths == Places \X Roles

\* every file is written in base_dir under the name of its role
SharedPath(dir, role) == << "base", role >>

\* session_dir / "story_narration.mp3" (audio_service.py line 140),
\* session_dir / "story_image.png", session_dir / "captions.srt",
\* session_dir / "story_video.mp4" (video_service.py lines 59, 115, 85)
SessionPath(dir, role) == << dir, role >>

File(r, made_from) == [by |-> r, made_from |-> made_from]

\* there is no file at the path
NoFile == [by |-> "nobody", made_from |-> {}]

\* the result of a request that is served alone
Alone(s, r) ==
    IF s.image_ok /\ s.encodes
    THEN [status |-> "200", made_from |-> {r}]
    ELSE [status |-> "500", made_from |-> {}]

NoResult == [status |-> "none", made_from |-> {}]

PairInit ==
    /\ sessions \in [Requests -> {[pc |-> "start", dir |-> None, narration |-> n,
                                   image_ok |-> i, captions |-> c, encodes |-> e,
                                   audio_path |-> None, result |-> NoResult] :
                                      n, i, c, e \in BOOLEAN}]
    /\ tree = [p \in Paths |-> NoFile]
    /\ SweepIdle
    /\ TimeIdle
    /\ story_text = << >>
    /\ duration = 0
    /\ CapIdle
    /\ cap_pc = "idle"
    /\ ws = "none" /\ files = {} /\ ws_old = FALSE
    /\ rm = [c \in Callers |-> IdleRm]
    /\ ReqIdle
    /\ cleanups = 0

\* main.py line 182, file_handler.py lines 40-42: a directory named by a
\* new uuid4
PairCreate(r) ==
    /\ sessions[r].pc = "start"
    /\ \E d \in Dirs :
          /\ \A q \in Requests : sessions[q].dir # d
          /\ sessions' = [sessions EXCEPT ![r] = [@ EXCEPT !.pc = "narration", !.dir = d]]
    /\ UNCHANGED tree
    /\ UNCHANGED << coreVars, sweepVars, timeVars >>

\* main.py lines 186-191, audio_service.py lines 140-164
PairNarration(r) ==
    /\ sessions[r].pc = "narration"
    /\ LET s == sessions[r]
           path == SessionPath(s.dir, "audio")
       IN  /\ tree' = IF s.narration THEN [tree EXCEPT ![path] = File(r, {r})] ELSE tree
           /\ sessions' = [sessions EXCEPT ![r] =
                              [@ EXCEPT !.pc = "image",
                                        !.audio_path = IF s.narration THEN "audio" ELSE None]]
    /\ UNCHANGED << coreVars, sweepVars, timeVars >>

\* video_service.py lines 59-64
PairImage(r) ==
    /\ sessions[r].pc = "image"
    /\ LET s == sessions[r]
           path == SessionPath(s.dir, "image")
       IN  /\ tree' = IF s.image_ok THEN [tree EXCEPT ![path] = File(r, {r})] ELSE tree
           /\ sessions' = [sessions EXCEPT ![r] =
                              [@ EXCEPT !.pc = IF tree'[path] # NoFile THEN "captions"
                                               ELSE "respond"]]
    /\ UNCHANGED << coreVars, sweepVars, timeVars >>

\* video_service.py lines 79-82 and 115-169
PairCaptions(r) ==
    /\ sessions[r].pc = "captions"
    /\ LET s == sessions[r]
           path == SessionPath(s.dir, "captions")
       IN  /\ tree' = IF s.captions THEN [tree EXCEPT ![path] = File(r, {r})] ELSE tree
           /\ sessions' = [sessions EXCEPT ![r] = [@ EXCEPT !.pc = "encode"]]
    /\ UNCHANGED << coreVars, sweepVars, timeVars >>

\* video_service.py lines 85-93: the encoder reads the image, the narration
\* if audio_path exists and the captions if subtitle_path exists, and
\* writes the output
PairEncode(r) ==
    /\ sessions[r].pc = "encode"
    /\ LET s == sessions[r]
           inputs == {SessionPath(s.dir, role) : role \in {"image", "audio", "captions"}}
           read == {p \in inputs : tree[p] # NoFile}
           path == SessionPath(s.dir, "output")
       IN  /\ tree' = IF s.encodes /\ tree[SessionPath(s.dir, "image")] # NoFile
                      THEN [tree EXCEPT ![path] =
                                File(r, UNION {tree[p].made_from : p \in read})]
                      ELSE tree
           /\ sessions' = [sessions EXCEPT ![r] = [@ EXCEPT !.pc = "respond"]]
    /\ UNCHANGED << coreVars, sweepVars, timeVars >>

\* main.py lines 203-226: the video is streamed or HTTPException is raised,
\* and cleanup_session removes session_dir
PairRespond(r) ==
    /\ sessions[r].pc = "respond"
    /\ LET s == sessions[r]
           path == SessionPath(s.dir, "output")
           result == IF tree[path] # NoFile
                     THEN [status |-> "200", made_from |-> tree[path].made_from]
                     ELSE [status |-> "500", made_from |-> {}]
       IN  /\ sessions' = [sessions EXCEPT ![r] = [@ EXCEPT !.pc = "done",
                                                            !.result = result]]
           /\ tree' = [p \in Paths |-> IF p[1] = s.dir THEN NoFile ELSE tree[p]]
    /\ UNCHANGED << coreVars, sweepVars, timeVars >>

PairNext ==
    \E r \in Requests :
        \/ PairCreate(r)
        \/ PairNarration(r)
        \/ PairImage(r)
        \/ PairCaptions(r)
        \/ PairEncode(r)
        \/ PairRespond(r)

SpecPair == PairInit /\ [][PairNext]_vars

(***************************************************************************)
(* lifespan, periodic_cleanup and cleanup_old_files over the session       *)
(* directories of base_dir.  cleanup_temp_files is synchronous, so no       *)
(* request handler runs during a scan; the background cleanup of a request  *)
(* runs in a worker thread and does.                                        *)
(***************************************************************************)
Orders(S) ==
    {f \in [1..Cardinality(S) -> S] : \A i, j \in DOMAIN f : f[i] = f[j] => i = j}

\* what the previous process left behind
LeftDirs ==
    {NoDir} \cup {[there |-> TRUE, old |-> o, locked |-> l] : o, l \in BOOLEAN}

SweepInit ==
    /\ dirs \in [Dirs -> LeftDirs]
    /\ sweep = IdleSweep
    /\ server = "startup"
    /\ task = "none"
    /\ TimeIdle
    /\ PairIdle
    /\ story_text = << >>
    /\ duration = 0
    /\ CapIdle
    /\ cap_pc = "idle"
    /\ ws = "none" /\ files = {} /\ ws_old = FALSE
    /\ rm = [c \in Callers |-> IdleRm]
    /\ ReqIdle
    /\ cleanups = 0

\* the exception leaves cleanup_old_files
ScanRaises(s) == [s EXCEPT !.pc = "raised", !.item = "none", !.todo = << >>]

\* cleanup_old_files lines 87-88: the exception ends the for loop, a warning
\* is printed
ScanExcept(s) == [s EXCEPT !.pc = "done", !.item = "none", !.todo = << >>, !.caught = TRUE]

\* the for loop of line 81 goes on with the next listed item, or ends
NextItem(s) ==
    IF s.todo = << >>
    THEN [s EXCEPT !.pc = "done", !.item = "none"]
    ELSE [s EXCEPT !.pc = "is_dir", !.item = Head(s.todo), !.todo = Tail(s.todo)]

\* cleanup_old_files lines 75-81: current_time is taken and base_dir listed,
\* in the order of the file system
BeginScan(by) ==
    /\ sweep.pc = "idle"
    /\ \E order \in Orders({d \in Dirs : dirs[d].there}) :
          sweep' = NextItem([pc |-> "iter", by |-> by, todo |-> order, item |-> "none",
                             expired |-> {d \in Dirs : dirs[d].there /\ dirs[d].old},
                             fresh |-> {d \in Dirs : dirs[d].there /\ ~dirs[d].old},
                             removed |-> {}, caught |-> FALSE,
                             ran |-> sweep.ran \cup {by}])

\* main.py line 78: the sweep at the start of the process
StartupSweep ==
    /\ server = "startup"
    /\ "startup" \notin sweep.ran
    /\ BeginScan("startup")
    /\ UNCHANGED << dirs, server, task >>
    /\ UNCHANGED << coreVars, timeVars, pairVars >>

\* main.py lines 90-92: asyncio.sleep(300) is over
TimerFires ==
    /\ server = "serving" /\ task = "sleeping"
    /\ BeginScan("periodic")
    /\ UNCHANGED << dirs, server, task >>
    /\ UNCHANGED << coreVars, timeVars, pairVars >>

\* main.py lines 81-87: the task is cancelled, then the last sweep
Shutdown ==
    /\ server = "serving" /\ task = "sleeping"
    /\ BeginScan("shutdown")
    /\ server' = "shutdown"
    /\ task' = "cancelled"
    /\ UNCHANGED dirs
    /\ UNCHANGED << coreVars, timeVars, pairVars >>

\* line 82: item.is_dir() is False for an item that is gone
ScanIsDir ==
    /\ sweep.pc = "is_dir"
    /\ sweep' = IF dirs[sweep.item].there
                THEN [sweep EXCEPT !.pc = "stat"]
                ELSE NextItem(sweep)
    /\ UNCHANGED << dirs, server, task >>
    /\ UNCHANGED << coreVars, timeVars, pairVars >>

\* lines 84-85: item.stat() raises for an item that is gone
ScanStat ==
    /\ sweep.pc = "stat"
    /\ sweep' = IF ~dirs[sweep.item].there THEN ScanExcept(sweep)
                ELSE IF dirs[sweep.item].old THEN [sweep EXCEPT !.pc = "rmtree"]
                ELSE NextItem(sweep)
    /\ UNCHANGED << dirs, server, task >>
    /\ UNCHANGED << coreVars, timeVars, pairVars >>

\* line 86: shutil.rmtree(item) raises for an item that is gone or cannot
\* be removed
ScanRmtree ==
    /\ sweep.pc = "rmtree"
    /\ IF dirs[sweep.item].there /\ ~dirs[sweep.item].locked
       THEN /\ dirs' = [dirs EXCEPT ![sweep.item] = NoDir]
            /\ sweep' = NextItem([sweep EXCEPT !.removed = @ \cup {sweep.item}])
       ELSE /\ sweep' = ScanExcept(sweep)
            /\ UNCHANGED dirs
    /\ UNCHANGED << server, task >>
    /\ UNCHANGED << coreVars, timeVars, pairVars >>

\* cleanup_temp_files returns to its caller: lifespan goes on to serve
\* (lines 79-80), periodic_cleanup sleeps again (line 91), lifespan ends;
\* an exception would end the caller
ScanReturn ==
    /\ sweep.pc \in {"done", "raised"}
    /\ sweep' = [sweep EXCEPT !.pc = "idle", !.by = "none"]
    /\ server' = CASE sweep.by = "startup" ->
                          IF sweep.pc = "done" THEN "serving" ELSE "stopped"
                   [] sweep.by = "shutdown" -> "stopped"
                   [] OTHER -> server
    /\ task' = CASE sweep.by = "startup" ->
                        IF sweep.pc = "done" THEN "sleeping" ELSE "none"
                 [] sweep.by = "periodic" ->
                        IF sweep.pc = "done" THEN "sleeping" ELSE "dead"
                 [] OTHER -> task
    /\ UNCHANGED dirs
    /\ UNCHANGED << coreVars, timeVars, pairVars >>

\* a request is served: create_session_dir makes a new directory
CreateSession(d) ==
    /\ server = "serving" /\ sweep.pc = "idle"
    /\ ~dirs[d].there
    /\ \E l \in BOOLEAN : dirs' = [dirs EXCEPT ![d] = [there |-> TRUE, old |-> FALSE,
                                                        locked |-> l]]
    /\ UNCHANGED << sweep, server, task >>
    /\ UNCHANGED << coreVars, timeVars, pairVars >>

\* the cleanup_session of the owning request removes its directory, from a
\* worker thread
OwnerCleanup(d) ==
    /\ server \in {"serving", "shutdown"}
    /\ dirs[d].there /\ ~dirs[d].locked
    /\ dirs' = [dirs EXCEPT ![d] = NoDir]
    /\ UNCHANGED << sweep, server, task >>
    /\ UNCHANGED << coreVars, timeVars, pairVars >>

\* time passes between two sweeps: the directory's mtime is more than
\* MAX_TEMP_FILE_AGE ago
AgeDir(d) ==
    /\ sweep.pc = "idle"
    /\ dirs[d].there /\ ~dirs[d].old
    /\ dirs' = [dirs EXCEPT ![d] = [@ EXCEPT !.old = TRUE]]
    /\ UNCHANGED << sweep, server, task >>
    /\ UNCHANGED << coreVars, timeVars, pairVars >>

ScanStep == ScanIsDir \/ ScanStat \/ ScanRmtree \/ ScanReturn

SweepNext ==
    \/ StartupSweep
    \/ TimerFires
    \/ Shutdown
    \/ ScanIsDir
    \/ ScanStat
    \/ ScanRmtree
    \/ ScanReturn
    \/ \E d \in Dirs : CreateSession(d)
    \/ \E d \in Dirs : OwnerCleanup(d)
    \/ \E d \in Dirs : AgeDir(d)

\* the synchronous code runs to its end, the sleep of 300 s ends, and time
\* passes for every directory
SpecSweep ==
    /\ SweepInit
    /\ [][SweepNext]_vars
    /\ WF_vars(StartupSweep)
    /\ WF_vars(ScanStep)
    /\ WF_vars(TimerFires)
    /\ \A d \in Dirs : WF_vars(AgeDir(d))

(***************************************************************************)
(* Properties.                                                             *)
(***************************************************************************)
\* an attempt whose subprocess failed, as lines 310 and 376 see it
Failed(a) ==
    \/ a.outcome \in {"nonzero", "timeout"}
    \/ a.outcome = "ok" /\ ~a.out_exists

HasWord(t) == \E i \in 1..Len(t) : ~IsSpace(t[i])

\* C1: the encoder subprocesses are started in the order A, B, C: A only as
\* the first one, B only after a failed A or first when there is no caption
\* file, C only after a failed B, nothing after a success, nothing after C.
TierOrder ==
    \A i \in 1..Len(attempts) :
        /\ attempts[i].tier = "A" => (i = 1 /\ subtitle_path # None)
        /\ attempts[i].tier = "B" =>
              \/ i = 1 /\ subtitle_path = None
              \/ i = 2 /\ attempts[1].tier = "A" /\ Failed(attempts[1])
        /\ attempts[i].tier = "C" =>
              i > 1 /\ attempts[i - 1].tier = "B" /\ Failed(attempts[i - 1])
        /\ i < Len(attempts) => (Failed(attempts[i]) /\ attempts[i].tier # "C")

TierOrderWitness ==
    /\ Len(attempts) = 3
    /\ attempts[1].tier = "A" /\ attempts[2].tier = "B" /\ attempts[3].tier = "C"
    /\ attempts[3].outcome = "ok"

\* C2: when the encoder invocation reports its result, every tier A or
\* tier B subprocess that timed out was followed by the next tier.
TimeoutAdvances ==
    pc = "compose_return" =>
        \A i \in 1..Len(attempts) :
            (attempts[i].outcome = "timeout" /\ attempts[i].tier \in {"A", "B"})
                => i < Len(attempts)

\* C3: create_story_video returns the output path exactly when the
\* subprocess of some tier exited with status 0 and the output file exists
\* at the return; otherwise it returns None.
PathIffEncoded ==
    pc = "respond" =>
        (video_path = "output" <=>
            /\ \E i \in 1..Len(attempts) : attempts[i].outcome = "ok"
            /\ ws = "exists" /\ "output" \in files)

PathIffEncodedWitness ==
    /\ pc = "respond"
    /\ video_path = "output"
    /\ Len(attempts) = 3
    /\ Failed(attempts[1]) /\ Failed(attempts[2])

\* C4: a request that created its workspace never ends without a call of
\* cleanup_session.
CleanupOnEveryExit == (pc = "done" /\ ws # "none") => cleanups >= 1

\* C5: cleanup_session never raises, and once every call has returned the
\* workspace does not exist.
DestroyIdempotent ==
    /\ \A c \in DestroyCallers : rm[c].pc # "raised"
    /\ ( /\ \A c \in DestroyCallers : rm[c].pc \in {"idle", "returned"}
         /\ \E c \in DestroyCallers : rm[c].pc = "returned" )
       => ws # "exists"

\* both callers passed the existence check, one of them lost the race
DestroyRaceWitness ==
    /\ rm["req"].pc = "returned" /\ rm["other"].pc = "returned"
    /\ rm["req"].caught # rm["other"].caught
    /\ ws = "removed"

\* C6: in the segment times written, every start is before its end, the
\* starts increase strictly, and no segment ends after the next one starts.
SegmentsOrdered ==
    cap_pc \in {"write", "return_path"} =>
        /\ Len(segment_times) = Len(segments)
        /\ \A i \in 1..Len(segment_times) :
              RLt(segment_times[i].s, segment_times[i].e)
        /\ \A i \in 1..(Len(segment_times) - 1) :
              /\ RLt(segment_times[i].s, segment_times[i + 1].s)
              /\ RLe(segment_times[i].e, segment_times[i + 1].s)

SegmentsOrderedWitness ==
    /\ cap_pc = "return_path"
    /\ Len(segment_times) >= 3
    /\ segment_times # provisional

\* C7: the last end is at most duration - 1 s; when the provisional last
\* end exceeds it, every start and end is the provisional one times
\* (duration - 1) / lastEnd and the last end is duration - 1 s; otherwise
\* the provisional times are written unchanged.
FitsDuration ==
    cap_pc \in {"write", "return_path"} =>
        LET n == Len(provisional)
            lastEnd == provisional[n].e
            limit == Rat(duration - TailMargin, 1)
        IN  /\ RLe(segment_times[n].e, limit)
            /\ IF RLt(limit, lastEnd)
               THEN /\ \A i \in 1..n :
                          /\ REq(RMul(segment_times[i].s, lastEnd),
                                 RMul(provisional[i].s, limit))
                          /\ REq(RMul(segment_times[i].e, lastEnd),
                                 RMul(provisional[i].e, limit))
                    /\ REq(segment_times[n].e, limit)
               ELSE segment_times = provisional

FitsDurationWitness ==
    /\ cap_pc = "return_path"
    /\ RLt(Rat(duration - TailMargin, 1), provisional[Len(provisional)].e)
    /\ Len(provisional) >= 2

\* the length of the video an attempt encodes: the narration's with
\* -shortest, else -t duration
VideoLength(a) == IF a.audio THEN audio.len ELSE duration

\* C8: whenever captions were burnt into the output, the last caption ends
\* at least 1 s before the end of the video.
CaptionsEndBeforeVideo ==
    \A i \in 1..Len(attempts) :
        (attempts[i].captions /\ attempts[i].outcome = "ok" /\ attempts[i].out_exists)
            => RLe(segment_times[Len(segment_times)].e,
                   Rat(VideoLength(attempts[i]) - TailMargin, 1))

Scenario120 ==
    /\ story_text = Paragraph(120)
    /\ duration = DefaultDuration
    /\ cap_pc = "return_path"

\* C9, as claimed: 120 words and 30 s give 15 segments of at most 8 words,
\* the first starting within 0.1 s of 0.5 s, the last ending by 29 s.
Scenario120Claimed ==
    Scenario120 =>
        /\ Len(segments) = 15
        /\ \A i \in 1..Len(segments) : Len(Words(segments[i])) <= ChunkWords
        /\ RLe(Rat(LeadIn - 1, 1), segment_times[1].s)
        /\ RLe(segment_times[1].s, Rat(LeadIn + 1, 1))
        /\ RLe(segment_times[15].e, Rat(DefaultDuration - TailMargin, 1))

\* C9, amended: 120 words and 30 s give 15 segments of at most 8 words, the
\* first starting at 0.5 * 29 / 51.3 s (about 0.28 s), the last ending at
\* 29 s.
Scenario120Amended ==
    Scenario120 =>
        /\ Len(segments) = 15
        /\ \A i \in 1..Len(segments) : Len(Words(segments[i])) <= ChunkWords
        /\ REq(segment_times[1].s,
               Rat(LeadIn * (DefaultDuration - TailMargin),
                   LeadIn + 15 * ChunkWords * TenthsPerWord + 14 * Gap))
        /\ RLt(Rat(28, 10), segment_times[1].s)
        /\ RLt(segment_times[1].s, Rat(29, 10))
        /\ REq(segment_times[15].e, Rat(DefaultDuration - TailMargin, 1))

Scenario120Witness == Scenario120 /\ Len(segment_times) = 15

\* create_story_video is past its caption step, captions were requested
AfterCaptions ==
    /\ enable_captions
    /\ pc \in {"ffmpeg", "encode", "simple", "compose_return"}

CaptioningDisabled ==
    /\ segments = << >>
    /\ "captions" \notin files
    /\ subtitle_path = None
    /\ attempts # << >> => (attempts[1].tier = "B" /\ ~attempts[1].captions)

\* C10, as claimed: every text of length >= 1 gives at least one segment,
\* the empty text gives none and captioning is disabled.
SegmentsUnlessEmpty ==
    AfterCaptions =>
        IF story_text # << >> THEN Len(segments) >= 1 ELSE CaptioningDisabled

\* C10, amended: every text with a non-whitespace character gives at least
\* one segment; the empty text and a text of whitespace only give none, no
\* caption file is written and the encoder starts with the plan without
\* captions.
SegmentsUnlessBlank ==
    AfterCaptions =>
        IF HasWord(story_text) THEN Len(segments) >= 1 ELSE CaptioningDisabled

SegmentsUnlessBlankWitness ==
    /\ AfterCaptions
    /\ story_text # << >>
    /\ ~HasWord(story_text)
    /\ Len(attempts) = 1

\* create_story_video took the branch of line 67: the narration exists and
\* _get_audio_duration has returned
ProbedBranch == proc.kind = "ffprobe" /\ proc.state = "returned"

\* C11, as claimed: the duration is the probed value + 2 s when the probe
\* gives at least 5 s, and exactly 30 s when there is no narration, when the
\* probe gives None and when it gives less than 5 s.
TimelineClaimed ==
    pc = "captions" =>
        duration = IF ProbedBranch /\ probed.some /\ probed.v >= SanityFloor
                   THEN probed.v + Padding
                   ELSE DefaultDuration

\* C11, amended: the duration is the probed value + 2 s when the probe gives
\* at least 5 s, 30 s + 2 s when the narration exists but the probe gives
\* None or less than 5 s, and exactly 30 s only when there is no narration.
TimelineAmended ==
    pc = "captions" =>
        duration = IF ProbedBranch
                   THEN (IF probed.some /\ probed.v >= SanityFloor
                         THEN probed.v
                         ELSE DefaultDuration) + Padding
                   ELSE DefaultDuration

TimelineAmendedWitness ==
    /\ pc = "captions"
    /\ ProbedBranch
    /\ probed.some /\ probed.v < SanityFloor
    /\ duration = DefaultDuration + Padding

\* C12: _get_audio_duration returns in every case; when ffprobe is missing,
\* exits non-zero or prints nothing or no number, the result is exactly
\* size / 16000 (480000 bytes give 30.0 s), and it is None only when the
\* size of the file cannot be read.
ProbeFallback ==
    (pc = "captions" /\ ProbedBranch /\ proc.outcome # "ok") =>
        IF ws = "exists" /\ "audio" \in files
        THEN /\ probed.some
             /\ probed.v * BytesPerSecond = audio.size * 10
             /\ audio.size = 480000 => probed.v = 300
        ELSE probed = NoDuration

ProbeFallbackWitness ==
    /\ pc = "captions" /\ ProbedBranch
    /\ proc.outcome = "garbage"
    /\ audio.size = 480000
    /\ probed = Some(300)

\* C13: when the image payload does not decode, create_story_video returns
\* None with no subprocess started and no caption or output file written,
\* and the workspace is gone when the request has ended.
UndecodableImage ==
    ~image_ok =>
        /\ proc = NoProc
        /\ attempts = << >>
        /\ files \subseteq {"audio"}
        /\ video_path = None
        /\ (pc = "done" /\ response = "500") => ws # "exists"

UndecodableImageWitness ==
    /\ ~image_ok
    /\ audio_path = "audio"
    /\ pc = "done" /\ response = "500"
    /\ ws = "removed"

\* C14: when a run of cleanup_old_files ends, every directory that was
\* listed with an mtime more than max_age_seconds ago is gone, unless its
\* own removal failed, and no directory with a younger mtime was removed.
SweepRemovesExpired ==
    sweep.pc = "done" =>
        /\ \A d \in sweep.expired : ~dirs[d].there \/ dirs[d].locked
        /\ sweep.removed \cap sweep.fresh = {}

EveryDirRemoved ==
    \A d \in Dirs :
        (dirs[d].there /\ ~dirs[d].locked) ~> (~dirs[d].there \/ server # "serving")

\* C17: the plans of all encoder subprocesses of a composition have the
\* same container, video codec and pixel format, and those with an audio
\* input the same audio codec and audio bitrate.
PlanConstants ==
    \A i, j \in 1..Len(attempts) :
        /\ attempts[i].container = attempts[j].container
        /\ attempts[i].vcodec = attempts[j].vcodec
        /\ attempts[i].pix_fmt = attempts[j].pix_fmt
        /\ (attempts[i].audio /\ attempts[j].audio) =>
              /\ attempts[i].acodec = attempts[j].acodec
              /\ attempts[i].abitrate = attempts[j].abitrate

\* the positions of generate_video inside create_story_video
ComposePcs ==
    {"save_image", "check_audio", "probe", "captions", "ffmpeg", "encode", "simple",
     "compose_return"}

\* C18: every call of create_story_video eventually returns (or is
\* cancelled), whatever its subprocesses do.
ComposeReturns == (pc \in ComposePcs) ~> (pc \notin ComposePcs)

\* C15: while an encoder subprocess runs whose image input existed when it
\* was started, session_dir and the image in it exist: the periodic sweep
\* does not remove the workspace of a composition in flight.
SweepSparesEncode ==
    (pc = "encode" /\ proc.state = "running" /\ proc.inputs_ok)
        => (ws = "exists" /\ "image" \in files)

\* C20: two concurrent requests have different session directories, every
\* file lies in the session directory of the request that wrote it and was
\* made from that request's files only, the image a request saved is there
\* while the request composes, and every request ends with the result it
\* has when it is served alone.
Isolation ==
    /\ \A r, q \in Requests :
          (r # q /\ sessions[r].dir # None) => sessions[r].dir # sessions[q].dir
    /\ \A p \in Paths :
          tree[p] # NoFile =>
              /\ p[1] = sessions[tree[p].by].dir
              /\ tree[p].made_from = {tree[p].by}
    /\ \A r \in Requests :
          /\ sessions[r].pc \in {"captions", "encode"} =>
                /\ tree[<< sessions[r].dir, "image" >>] # NoFile
                /\ tree[<< sessions[r].dir, "image" >>].by = r
          /\ sessions[r].pc = "done" => sessions[r].result = Alone(sessions[r], r)

\* both requests are composing at the same time, one of them with an image
\* that does not decode behind it
IsolationWitness ==
    /\ sessions["r1"].pc = "encode" /\ sessions["r1"].captions
    /\ sessions["r2"].pc = "respond" /\ ~sessions["r2"].image_ok
    /\ tree[<< sessions["r1"].dir, "captions" >>] # NoFile
    /\ tree[<< sessions["r2"].dir, "audio" >>] # NoFile

(***************************************************************************)
(* C21: when captions are requested, the story text is not empty and the   *)
(* caption file is not produced (no segment, or an exception while it is   *)
(* written), create_story_video goes on to the encoder: no attempt burns   *)
(* captions, the first attempt is tier B, and no failure is reported       *)
(* before an encoder has run.                                              *)
(***************************************************************************)
CaptionsNotProduced ==
    /\ enable_captions /\ story_text # << >>
    /\ cap_pc \in {"return_none", "except_none"}

ComposeSurvivesCaptions ==
    CaptionsNotProduced =>
       /\ subtitle_path = None /\ sub_arg = None
       /\ \A i \in 1..Len(attempts) :
             attempts[i].tier \in {"B", "C"} /\ ~attempts[i].captions
       /\ attempts # << >> => attempts[1].tier = "B"
       /\ pc # "except_exception"
       /\ pc \in {"compose_return", "respond", "except_http", "streaming",
                  "background", "done"} => attempts # << >>

\* the write of the caption file failed in an existing workspace and the
\* composition returned the output
ComposeSurvivesCaptionsWitness ==
    /\ enable_captions /\ story_text # << >>
    /\ cap_pc = "except_none"
    /\ video_path = "output"
    /\ response = "200"
    /\ Len(attempts) = 1 /\ attempts[1].tier = "B"

(***************************************************************************)
(* C22: every caption segment is made of 1 to 8 consecutive words of one   *)
(* sentence, joined by single spaces; the segments follow the order of the *)
(* text, and a sentence of w words gives ceil(w / 8) segments: segment c   *)
(* of sentence k holds the words 8(c-1)+1 .. min(8c, w) of that sentence.  *)
(***************************************************************************)
SentenceWordLists(t) ==
    LET ss == SplitSentences(t) IN [k \in 1..Len(ss) |-> Words(ss[k])]

CeilEighth(w) == (w + 7) \div 8

\* the number of segments owed to the sentences before sentence k
RECURSIVE SegmentsBefore(_, _)
SegmentsBefore(sw, k) ==
    IF k <= 1 THEN 0
    ELSE SegmentsBefore(sw, k - 1) + CeilEighth(Len(sw[k - 1]))

SingleSpaced(seg) ==
    /\ seg # << >>
    /\ ~IsSpace(seg[1]) /\ ~IsSpace(seg[Len(seg)])
    /\ \A i \in 1..(Len(seg) - 1) :
          IsSpace(seg[i]) => seg[i] = " " /\ ~IsSpace(seg[i + 1])

Segmented == cap_pc \in {"return_none", "timing", "rescale", "write", "return_path"}

SegmentsAreChunks ==
    Segmented =>
       LET sw == SentenceWordLists(story_text)
       IN  /\ Len(segments) = SegmentsBefore(sw, Len(sw) + 1)
           /\ \A k \in 1..Len(sw) : \A c \in 1..CeilEighth(Len(sw[k])) :
                 LET seg == segments[SegmentsBefore(sw, k) + c]
                 IN  /\ Words(seg) = SubSeq(sw[k], 8 * (c - 1) + 1, Min(8 * c, Len(sw[k])))
                     /\ Len(Words(seg)) \in 1..8
                     /\ SingleSpaced(seg)

\* two sentences of 9 and 17 words: 2 + 3 segments
SegmentsAreChunksWitness ==
    /\ cap_pc = "timing"
    /\ Len(SplitSentences(story_text)) = 2
    /\ Len(Words(SplitSentences(story_text)[1])) = 9
    /\ Len(Words(SplitSentences(story_text)[2])) = 17
    /\ Len(segments) = 5
    /\ Len(Words(segments[2])) = 1
    /\ Len(Words(segments[3])) = 8

(***************************************************************************)
(* C23: when the last provisional end does not exceed duration - 1, the    *)
(* timings handed to the writer are the provisional ones: the first        *)
(* segment starts at 0.5 s, a segment of wc words lasts max(wc / 2.5, 1.5) *)
(* seconds, which is between 1.5 s and 3.2 s, and every next segment       *)
(* starts 0.2 s after the end of the one before.  Times in tenths of a     *)
(* second.                                                                 *)
(***************************************************************************)
Timed == cap_pc \in {"write", "return_path"}

ProvisionalKept ==
    (Timed /\ ~NeedsRescale(provisional, duration)) =>
       /\ segment_times = provisional
       /\ Len(segment_times) = Len(segments)
       /\ REq(segment_times[1].s, Rat(5, 1))
       /\ \A i \in 1..Len(segment_times) :
             LET wc == Len(Words(segments[i]))
                 lasts == IF 4 * wc >= 15 THEN 4 * wc ELSE 15
             IN  /\ segment_times[i].s.d = 1 /\ segment_times[i].e.d = 1
                 /\ segment_times[i].e.n - segment_times[i].s.n = lasts
                 /\ lasts >= 15 /\ lasts <= 32
       /\ \A i \in 1..(Len(segment_times) - 1) :
             segment_times[i + 1].s.n = segment_times[i].e.n + 2

\* a sentence of 9 words in a video of 30 s: 0.5 - 3.7 and 3.9 - 5.4
ProvisionalKeptWitness ==
    /\ cap_pc = "write"
    /\ duration = 300
    /\ Len(segments) = 2
    /\ Len(Words(segments[1])) = 8 /\ Len(Words(segments[2])) = 1
    /\ segment_times = << [s |-> Rat(5, 1), e |-> Rat(37, 1)],
                          [s |-> Rat(39, 1), e |-> Rat(54, 1)] >>

(***************************************************************************)
(* C24: a plan has the subtitles filter only if captions were requested,   *)
(* the story text was not empty and the caption file, with at least one    *)
(* segment, is in the workspace when the plan is made; the tier B plan     *)
(* that follows a tier A plan is that plan without the subtitles filter:   *)
(* same inputs, scale, pad and zoompan in that order, same codecs; the     *)
(* tier C plan has no filter.                                              *)
(***************************************************************************)
Burns(a) == \E k \in 1..Len(a.filters) : a.filters[k] = "subtitles"

WithoutSubtitles(fs) == SelectSeq(fs, LAMBDA f : f # "subtitles")

PlanFilters ==
    /\ \A i \in 1..Len(attempts) :
          LET a == attempts[i]
          IN  /\ Burns(a) => /\ enable_captions /\ story_text # << >>
                             /\ cap_pc = "return_path" /\ Len(segments) >= 1
                             /\ a.tier = "A"
              /\ a.tier = "C" => a.filters = << >>
              /\ a.tier \in {"A", "B"} =>
                    WithoutSubtitles(a.filters) = << "scale", "pad", "zoompan" >>
    /\ \A i \in 1..(Len(attempts) - 1) :
          attempts[i].tier = "A" =>
             LET a == attempts[i]
                 b == attempts[i + 1]
             IN  /\ b.tier = "B"
                 /\ b.filters = WithoutSubtitles(a.filters)
                 /\ b.audio = a.audio
                 /\ b.container = a.container /\ b.vcodec = a.vcodec
                 /\ b.pix_fmt = a.pix_fmt
                 /\ b.acodec = a.acodec /\ b.abitrate = a.abitrate

\* the caption file is in the workspace when a plan with the filter is made
CaptionFileAtPlan ==
    (Len(attempts') = Len(attempts) + 1 /\ Burns(attempts'[Len(attempts')])) =>
       (ws = "exists" /\ "captions" \in files)

PlanFiltersHold == [](PlanFilters) /\ [][CaptionFileAtPlan]_vars

\* the three tiers of one composition with a narration
PlanFiltersWitness ==
    /\ Len(attempts) = 3
    /\ attempts[1].tier = "A" /\ Burns(attempts[1]) /\ attempts[1].audio
    /\ attempts[1].filters = << "scale", "pad", "zoompan", "subtitles" >>
    /\ attempts[2].tier = "B" /\ attempts[2].audio
    /\ attempts[2].filters = << "scale", "pad", "zoompan" >>
    /\ attempts[3].tier = "C" /\ attempts[3].filters = << >>

(***************************************************************************)
(* C25: after a 200 response the request removes its session directory     *)
(* only once the reading of the output file for the response has ended:    *)
(* while iterfile is being read, cleanup_session has not been called by    *)
(* the request, and whenever it has been called the streaming is over.     *)
(***************************************************************************)
CleanupAfterStream ==
    response = "200" =>
       /\ pc = "streaming" => (rm["req"].pc = "idle" /\ cleanups = 0 /\ streamed = "none")
       /\ (rm["req"].pc # "idle" \/ cleanups > 0) =>
             (streamed \in {"ok", "failed"} /\ pc \in {"background", "done"})

\* the output was read to its end, then the request removed the directory
CleanupAfterStreamWitness ==
    /\ response = "200" /\ streamed = "ok"
    /\ pc = "done" /\ cleanups = 1
    /\ ws = "removed"
    /\ ~rm["req"].caught

(***************************************************************************)
(* C26: the words of the segments, taken segment after segment, are the    *)
(* words of the story text: none is lost, none is repeated, the order is   *)
(* kept, and the word counts are equal.                                    *)
(***************************************************************************)
RECURSIVE WordsOfAll(_)
WordsOfAll(segs) ==
    IF segs = << >> THEN << >>
    ELSE Words(Head(segs)) \o WordsOfAll(Tail(segs))

RECURSIVE WordCount(_)
WordCount(segs) ==
    IF segs = << >> THEN 0
    ELSE Len(Words(Head(segs))) + WordCount(Tail(segs))

WordsPreserved ==
    Segmented =>
       /\ WordsOfAll(segments) = Words(story_text)
       /\ WordCount(segments) = Len(Words(story_text))

\* two sentences of 17 words: 34 words in 6 segments
WordsPreservedWitness ==
    /\ cap_pc = "rescale"
    /\ Len(SplitSentences(story_text)) = 2
    /\ Len(Words(story_text)) = 34
    /\ Len(segments) = 6
    /\ WordCount(segments) = 34

(***************************************************************************)
(* C27: the duration create_story_video passes to _create_subtitle_file    *)
(* and to the encoder is at least 7 s, and whenever the timings were       *)
(* scaled, the factor (duration - 1) / last provisional end is above 0 and *)
(* at most 1.  Times in tenths of a second.                                *)
(***************************************************************************)
Scaled == cap_pc \in {"return_path", "except_none"} /\ segment_times # provisional

DurationFloor ==
    /\ duration # 0 => duration >= 70
    /\ pc \in {"captions", "ffmpeg", "encode", "simple", "compose_return"} => duration >= 70
    /\ Scaled =>
          LET lastEnd == provisional[Len(provisional)].e
              factor == RDiv(Rat(duration - 10, 1), lastEnd)
          IN  /\ RLt(Rat(0, 1), factor)
              /\ RLe(factor, Rat(1, 1))
              /\ \A i \in 1..Len(segment_times) :
                    /\ REq(segment_times[i].s, RMul(provisional[i].s, factor))
                    /\ REq(segment_times[i].e, RMul(provisional[i].e, factor))

\* a probe of exactly 5 s gives the shortest video, 7 s, and 25 words that
\* end at 12.2 s are scaled by 6 / 12.2
DurationFloorWitness ==
    /\ duration = 70
    /\ Scaled
    /\ Len(Words(story_text)) = 25
    /\ REq(segment_times[Len(segment_times)].e, Rat(60, 1))
    /\ pc = "encode"

(***************************************************************************)
(* C28: one call of create_story_video starts at most three encoder        *)
(* subprocesses, at most one per tier and each on a later tier than the    *)
(* one before: A, B, C at most when the caption file was produced, B, C at *)
(* most when it was not; a step starts at most one subprocess.             *)
(***************************************************************************)
TierRank(tier) == CASE tier = "A" -> 1 [] tier = "B" -> 2 [] tier = "C" -> 3

AttemptsBounded ==
    /\ Len(attempts) <= 3
    /\ \A i \in 1..Len(attempts) : \A j \in 1..Len(attempts) :
          i < j => TierRank(attempts[i].tier) < TierRank(attempts[j].tier)
    /\ \A i \in 1..Len(attempts) : attempts[i].tier = "A" => attempts[i].captions
    /\ cap_pc # "return_path" =>
          /\ Len(attempts) <= 2
          /\ \A i \in 1..Len(attempts) : attempts[i].tier \in {"B", "C"}
    /\ pc \in {"compose_return", "respond", "except_http", "streaming", "background"} =>
          (attempts # << >> => attempts[Len(attempts)].outcome # "running")

OneAttemptPerStep ==
    \/ attempts' = attempts
    \/ /\ Len(attempts') = Len(attempts)
       /\ \A i \in 1..(Len(attempts) - 1) : attempts'[i] = attempts[i]
    \/ /\ Len(attempts') = Len(attempts) + 1
       /\ SubSeq(attempts', 1, Len(attempts)) = attempts
       /\ proc.state # "running"

AttemptsBoundedHold == [](AttemptsBounded) /\ [][OneAttemptPerStep]_vars

\* the three tiers ran and failed, and the chain has ended
AttemptsBoundedWitness ==
    /\ Len(attempts) = 3
    /\ attempts[3].tier = "C" /\ attempts[3].outcome = "nonzero"
    /\ pc = "compose_return" /\ ~success

\* no caption file: tier B and tier C, then the end
AttemptsBoundedNoCaptions ==
    /\ cap_pc = "return_none"
    /\ Len(attempts) = 2
    /\ pc = "compose_return"

====
